---- MODULE Spec2Model ----
(***************************************************************************)
(* Model of the reconciliation pipeline of src/app.py:                     *)
(*   load_denuncias_from_postgres, load_mongodb_logs,                      *)
(*   combine_postgres_and_mongo_data, transform_logs_to_sessions,          *)
(*   generate_synthetic_data, compute_metrics.                             *)
(*                                                                         *)
(* A DataFrame is a sequence of rows; a row is a function from column      *)
(* names to values.  A column exists when at least one row carries it      *)
(* (pd.json_normalize builds the union of the keys); a row that lacks a    *)
(* column of its frame reads as NaN.  Timestamps are integers (minutes).   *)
(***************************************************************************)
EXTENDS Integers, Sequences, FiniteSets, TLC

\* ------------------------------------------------------------------ values

\* float('nan'): what a row reads in a column it has no key for.
NaN == "<NaN>"
\* Python None: an explicit null stored in a document or a SQL NULL.
PyNone == "<None>"
\* pd.NaT, the null timestamp.
NaT == 0 - 1

\* pd.isna / Series.notna on a cell.
IsNa(v) == v \in {NaN, PyNone}

\* Python truthiness of a cell value: None and '' are falsy, NaN is truthy.
Truthy(v) == v \notin {PyNone, ""}

\* a or b, Python's short-circuit `or`.
PyOr(a, b) == IF Truthy(a) THEN a ELSE b

\* str.lower() on the region codes and message fragments of the model.
Lower(s) ==
    CASE s = "SP" -> "sp"
      [] s = "RJ" -> "rj"
      [] s = "MG" -> "mg"
      [] s = "Fluxo" -> "fluxo"
      [] s = "FLUXO" -> "fluxo"
      [] s = "CONCLUIDO" -> "concluido"
      [] s = "Concluído" -> "concluído"
      [] s = "Fallback detectado" -> "fallback detectado"
      [] OTHER -> s

\* The fragments of the matching vocabularies that occur, as written, in
\* str(value) of a message or component cell.  NaN prints as 'nan' and None
\* as 'None': neither holds a fragment.
Fragments(v) ==
    CASE v = "Sessão iniciada" -> {}
      [] v = "Fluxo concluído" -> {"Fluxo", "concluído"}
      [] v = "FLUXO CONCLUIDO" -> {"FLUXO", "CONCLUIDO"}
      [] v = "Fallback detectado: não entendi" -> {"Fallback detectado"}
      [] v = "fallback detectado" -> {"fallback detectado"}
      [] v = "SendGridService" -> {"SendGrid"}
      [] v = "sendgrid" -> {"sendgrid"}
      [] v = "DialogflowWebhook" -> {}
      [] OTHER -> {}

\* str.contains with the case argument left out: always case-sensitive.
StrContains_CaseSensitive(v, pats, caseSensitive) ==
    Fragments(v) \cap pats # {}

\* Series.astype(str).str.contains(pat, case=..., na=False) on one cell;
\* pats is the set of alternatives of the pattern.
StrContains(v, pats, caseSensitive) ==
    IF caseSensitive
    THEN Fragments(v) \cap pats # {}
    ELSE \E f \in Fragments(v) : \E p \in pats : Lower(f) = Lower(p)

\* ------------------------------------------------------------- data frames

Columns(df) == UNION {DOMAIN df[i] : i \in 1..Len(df)}

\* df[col] at row i of a frame that has the column.
Cell(df, i, col) == IF col \in DOMAIN df[i] THEN df[i][col] ELSE NaN

\* Series.get on a row: the cell, or None when the frame has no such column.
RowGet(df, i, col) == IF col \in Columns(df) THEN Cell(df, i, col) ELSE PyNone

\* The timestamp of row i after pd.to_datetime(errors='coerce'): the stored
\* date, NaT for a row that has none.
TsCell(df, i) ==
    IF "timestamp" \in DOMAIN df[i] THEN df[i]["timestamp"] ELSE NaT

\* df[col] = df[src]: every row gets the column, NaN where src is missing.
CopyColumn(df, col, src) ==
    [i \in 1..Len(df) |-> (col :> Cell(df, i, src)) @@ df[i]]

\* The latest timestamp instead of the earliest.
MinTs_Latest(S) ==
    LET T == S \ {NaT}
    IN IF T = {} THEN NaT ELSE CHOOSE t \in T : \A u \in T : t >= u

\* Series.min() over timestamps: NaT is skipped, NaT when nothing is left.
MinTs(S) ==
    LET T == S \ {NaT}
    IN IF T = {} THEN NaT ELSE CHOOSE t \in T : \A u \in T : t <= u

\* ------------------------------------------------ transform_logs_to_sessions

possible_session_cols ==
    << "dialogflowSessionId", "session_id", "sessionId",
       "context.dialogflowSessionId", "context.session_id", "protocolo" >>

\* f'context.{col}'
Ctx(col) ==
    CASE col = "intentName" -> "context.intentName"
      [] col = "queryText" -> "context.queryText"
      [] col = "protocolo" -> "context.protocolo"
      [] col = "prioridade" -> "context.prioridade"
      [] col = "uf" -> "context.uf"
      [] col = "channel" -> "context.channel"

\* df.index.astype(str) of the RangeIndex of the frame: row i is str(i - 1).
IndexStr(i) ==
    CASE i = 1 -> "0" [] i = 2 -> "1" [] i = 3 -> "2" [] i = 4 -> "3"
      [] i = 5 -> "4" [] OTHER -> "5"

\* f"MONGO-{session_id}"
MongoLabel(sid) ==
    CASE sid = "s1" -> "MONGO-s1" [] sid = "s2" -> "MONGO-s2"
      [] sid = "P1" -> "MONGO-P1" [] sid = "P2" -> "MONGO-P2"
      [] sid = "0" -> "MONGO-0" [] sid = "1" -> "MONGO-1"
      [] sid = "2" -> "MONGO-2" [] sid = "3" -> "MONGO-3"
      [] sid = "4" -> "MONGO-4" [] OTHER -> "MONGO-5"

\* The group keys of the model in the order groupby(sort=True) yields them
\* (Python string order).
SessionKeyOrder ==
    << "", "0", "1", "2", "3", "4", "5", "None", "P1", "P2", "s1", "s2" >>

\* col in df.columns and df[col].notna().any()
ColNotnaAny(df, col) ==
    col \in Columns(df) /\ \E i \in 1..Len(df) : ~IsNa(Cell(df, i, col))

\* The loop over possible_session_cols: the first candidate whose column has
\* a non-null value, None when there is none.
SessionIdCol(df) ==
    LET ok == {k \in 1..Len(possible_session_cols) :
                  ColNotnaAny(df, possible_session_cols[k])}
    IN IF ok = {} THEN PyNone
       ELSE possible_session_cols[CHOOSE k \in ok : \A m \in ok : k <= m]

\* df['session_id'] = df[col], or the row index when no candidate was found.
WithSessionId(df) ==
    IF SessionIdCol(df) # PyNone
    THEN CopyColumn(df, "session_id", SessionIdCol(df))
    ELSE [i \in 1..Len(df) |-> ("session_id" :> IndexStr(i)) @@ df[i]]

\* The flat column is filled from the context.-prefixed one when only the
\* latter exists.
NormalizeFlat(df, col) ==
    IF col \notin Columns(df) /\ Ctx(col) \in Columns(df)
    THEN CopyColumn(df, col, Ctx(col))
    ELSE df

NormalizeAll(df) ==
    NormalizeFlat(NormalizeFlat(NormalizeFlat(NormalizeFlat(NormalizeFlat(
        NormalizeFlat(df, "intentName"), "queryText"), "protocolo"),
        "prioridade"), "uf"), "channel")

\* groupby on the frame as it came, the sort left out.
SortValues_Unsorted(df) == df

\* df.sort_values('timestamp'): ascending, NaT last, rows of equal timestamp
\* in their input order.
SortValues(df) ==
    LET Before(j, i) ==
            \/ TsCell(df, j) # NaT /\ (TsCell(df, i) = NaT \/ TsCell(df, j) < TsCell(df, i))
            \/ TsCell(df, j) = TsCell(df, i) /\ j < i
        Rank(i) == Cardinality({j \in 1..Len(df) : Before(j, i)})
    IN [k \in 1..Len(df) |-> df[CHOOSE i \in 1..Len(df) : Rank(i) = k - 1]]

\* The rows of one group, in the order of the sorted frame.
GroupRows(sorted, sid) == SelectSeq(sorted, LAMBDA r : r["session_id"] = sid)

\* The last value of the column instead of the first.
FirstNotNa_Last(grp, cols, col) ==
    LET ok == {i \in 1..Len(grp) : ~IsNa(Cell(grp, i, col))}
    IN IF col \in cols /\ ok # {}
       THEN Cell(grp, CHOOSE i \in ok : \A m \in ok : i >= m, col)
       ELSE PyNone

\* grp[col].dropna().iloc[0] if the column exists and has a value, else None.
FirstNotNa(grp, cols, col) ==
    LET ok == {i \in 1..Len(grp) : ~IsNa(Cell(grp, i, col))}
    IN IF col \in cols /\ ok # {}
       THEN Cell(grp, CHOOSE i \in ok : \A m \in ok : i <= m, col)
       ELSE PyNone

CompletionTokens == {"concluído", "concluido", "Fluxo"}

\* The dictionary appended for one group (cols: the columns of the frame).
SessionRecord(grp, cols, sid) ==
    LET rows == 1..Len(grp)
        created_at == MinTs({TsCell(grp, i) : i \in rows})
        completed_rows ==
            {i \in rows : StrContains(Cell(grp, i, "message"), CompletionTokens, FALSE)}
        completed_at == MinTs({TsCell(grp, i) : i \in completed_rows})
        labelled ==
            {i \in rows : "intentName" \in cols
                          /\ Cell(grp, i, "intentName") = "Default Fallback Intent"}
        by_message ==
            \E i \in rows :
                StrContains(Cell(grp, i, "message"), {"Fallback detectado"}, TRUE)
        fallback_flag == labelled # {} \/ by_message
        fallback_phrase ==
            IF labelled # {} /\ "queryText" \in cols
            THEN Cell(grp, CHOOSE i \in labelled : \A m \in labelled : i <= m, "queryText")
            ELSE PyNone
        notif_rows ==
            {i \in rows : StrContains(Cell(grp, i, "component"), {"SendGrid"}, TRUE)}
        notification_sent_at == MinTs({TsCell(grp, i) : i \in notif_rows})
        priority == FirstNotNa(grp, cols, "prioridade")
        uf == FirstNotNa(grp, cols, "uf")
        channel == FirstNotNa(grp, cols, "channel")
        protocolo == FirstNotNa(grp, cols, "protocolo")
    IN [ conversation_id |-> sid,
         channel |-> PyOr(channel, "web"),
         uf |-> IF Truthy(uf) THEN Lower(PyOr(uf, "")) ELSE "sp",
         priority |-> PyOr(priority, "Média"),
         created_at |-> created_at,
         completed_at |-> completed_at,
         notification_sent_at |-> notification_sent_at,
         fallback |-> fallback_flag,
         fallback_phrase |-> fallback_phrase,
         slots_filled |-> 6,
         slots_total |-> 6,
         escalated |-> notification_sent_at # NaT,
         abandoned |-> completed_at = NaT,
         intent_final |-> "AbrirChamadoSuporte",
         protocol |-> IF protocolo # PyNone THEN protocolo ELSE MongoLabel(sid) ]

\* The keys the loop over the groups does not skip: groupby drops the null
\* keys, the loop skips '' and 'None'.
ProcessedKeys(df) ==
    {df[i]["session_id"] : i \in 1..Len(df)} \ {NaN, PyNone, "", "None"}

\* transform_logs_to_sessions(df_logs).  raised names the exception that
\* leaves the function ("" when it returns): sort_values on a frame with no
\* timestamp column is a KeyError, and grp.get('message', '') or
\* grp.get('component', '') on a frame without that column is the str ''
\* whose .astype does not exist, an AttributeError in the first group.
transform_logs_to_sessions(df_logs) ==
    LET df == NormalizeAll(WithSessionId(df_logs))
        cols == Columns(df)
        sorted == SortValues(df)
        keys == SelectSeq(SessionKeyOrder, LAMBDA k : k \in ProcessedKeys(df))
    IN IF "timestamp" \notin cols
       THEN [raised |-> "KeyError", sessions |-> << >>]
       ELSE IF keys # << >> /\ ~({"message", "component"} \subseteq cols)
       THEN [raised |-> "AttributeError", sessions |-> << >>]
       ELSE [raised |-> "",
             sessions |-> [k \in 1..Len(keys) |->
                              SessionRecord(GroupRows(sorted, keys[k]), cols, keys[k])]]

\* ------------------------------------------------------------- the readers

\* The exceptions the body of a reader raises.
ReaderErrors == {"ArgumentError", "OperationalError", "PyMongoError"}

\* What a reader hands back: the frame it returns, or the exception that
\* leaves it.
Returns(df) == [raised |-> "", df |-> df]
Raises(e) == [raised |-> e, df |-> << >>]

\* The try block of load_denuncias_from_postgres: create_engine(None)
\* raises, connect() or read_sql raises, or the rows of the query come back.
QueryDenuncias(source, rows) ==
    IF source = "no_descriptor" THEN Raises("ArgumentError")
    ELSE IF source = "query_fails" THEN Raises("OperationalError")
    ELSE Returns(rows)

\* The reader with its try block left unguarded.
load_denuncias_from_postgres_NoExcept(source, rows) ==
    IF source = "no_driver" THEN Returns(<< >>) ELSE QueryDenuncias(source, rows)

\* load_denuncias_from_postgres(database_url): the rows of the query, an
\* empty frame when create_engine is None or anything raises.
load_denuncias_from_postgres(source, rows) ==
    IF source = "no_driver" THEN Returns(<< >>)
    ELSE IF QueryDenuncias(source, rows).raised # "" THEN Returns(<< >>)
    ELSE QueryDenuncias(source, rows)

\* The try block of load_mongodb_logs: MongoClient or find raises, or the
\* documents with timestamp >= cutoff come back as a frame (an empty frame
\* when no document matches).
FindLogs(source, docs, cutoff) ==
    IF source = "query_fails" THEN Raises("PyMongoError")
    ELSE Returns(SelectSeq(docs, LAMBDA d : "timestamp" \in DOMAIN d /\ d["timestamp"] >= cutoff))

\* load_mongodb_logs(): an empty frame when MONGO_URI or MongoClient is
\* missing or anything raises, else what the query found.
load_mongodb_logs(source, docs, cutoff) ==
    IF source \in {"no_descriptor", "no_driver"} THEN Returns(<< >>)
    ELSE IF FindLogs(source, docs, cutoff).raised # "" THEN Returns(<< >>)
    ELSE FindLogs(source, docs, cutoff)

\* ------------------------------------- combine_postgres_and_mongo_data, path A

\* f'conv_{i}' for the row at position i of the frame (range starts at 0).
ConvId(i) ==
    CASE i = 1 -> "conv_0" [] i = 2 -> "conv_1" [] i = 3 -> "conv_2"
      [] i = 4 -> "conv_3" [] OTHER -> "conv_4"

\* df.get(col, default): the column when the frame has it, else the default.
DfGet(df, i, col, default) ==
    IF col \in Columns(df) THEN Cell(df, i, col) ELSE default

sample_phrases == {"não entendi", "poderia repetir", "erro"}

\* The delays np.random.uniform(5, 15) is sampled at, in minutes.
NotifDelayChoices == {5, 10, 14}

\* The structured mapping with escalated set for every row that has a
\* priority other than "Baixa".
StructuredBase_EscalatesMedia(pg_data) ==
    [i \in 1..Len(pg_data) |->
        [ conversation_id |-> DfGet(pg_data, i, "protocolo", ConvId(i)),
          priority |-> DfGet(pg_data, i, "prioridade", "Média"),
          protocol |-> DfGet(pg_data, i, "protocolo", ""),
          channel |-> "web",
          slots_filled |-> 6,
          slots_total |-> 6,
          intent_final |-> "AbrirChamadoSuporte",
          abandoned |-> FALSE,
          escalated |-> (DfGet(pg_data, i, "prioridade", PyNone) \in {"Alta", "Média"}) ]
        @@ pg_data[i]]

\* The field mapping and the fixed defaults of the structured path: the case
\* row keeps its columns and gains these.
StructuredBase(pg_data) ==
    [i \in 1..Len(pg_data) |->
        [ conversation_id |-> DfGet(pg_data, i, "protocolo", ConvId(i)),
          priority |-> DfGet(pg_data, i, "prioridade", "Média"),
          protocol |-> DfGet(pg_data, i, "protocolo", ""),
          channel |-> "web",
          slots_filled |-> 6,
          slots_total |-> 6,
          intent_final |-> "AbrirChamadoSuporte",
          abandoned |-> FALSE,
          escalated |-> (DfGet(pg_data, i, "prioridade", PyNone) = "Alta") ] @@ pg_data[i]]

\* protocol = log.get('protocolo') or log.get('context.protocolo')
LogProtocol(logs, i) ==
    PyOr(RowGet(logs, i, "protocolo"), RowGet(logs, i, "context.protocolo"))

\* The rows of fallback_logs.
FallbackLogRows(logs) ==
    {i \in 1..Len(logs) :
        \/ StrContains(Cell(logs, i, "message"), {"Fallback detectado"}, TRUE)
        \/ DfGet(logs, i, "intentName", "") = "Default Fallback Intent"}

fallback_protocols(logs) ==
    {LogProtocol(logs, i) : i \in {j \in FallbackLogRows(logs) : Truthy(LogProtocol(logs, j))}}

\* The rows of notification_logs that carry a protocol and a timestamp.
NotificationLogRows(logs) ==
    {i \in 1..Len(logs) :
        /\ StrContains(Cell(logs, i, "component"), {"SendGrid"}, TRUE)
        /\ Truthy(LogProtocol(logs, i))
        /\ TsCell(logs, i) # NaT}

\* notification_protocols[protocol], NaT when the protocol has no entry.  A
\* NaN key equals no cell of the protocolo column.
NotificationOf(logs, protocol) ==
    MinTs({TsCell(logs, i) :
              i \in {j \in NotificationLogRows(logs) :
                        LogProtocol(logs, j) = protocol /\ protocol # NaN}})

\* The rows np.random.choice(sample_phrases) is drawn for: those with
\* fallback set, in a frame that gets as far as line 257.
FallbackRows(base, logs) ==
    IF ~({"message", "component"} \subseteq Columns(logs)) THEN {}
    ELSE {i \in 1..Len(base) : base[i]["protocolo"] \in fallback_protocols(logs)}

\* The enrichment of lines 236-284; phrase[i] is what np.random.choice gives
\* for the fallback row i.  The frame has no 'message' or no 'component'
\* column: the default '' of mongo_logs.get has no .astype, an AttributeError.
EnrichWithLogs(base, logs, phrase) ==
    IF ~({"message", "component"} \subseteq Columns(logs))
    THEN [raised |-> "AttributeError", rows |-> << >>]
    ELSE [raised |-> "",
          rows |-> [i \in 1..Len(base) |->
              LET fb == base[i]["protocolo"] \in fallback_protocols(logs)
              IN [ fallback |-> fb,
                   fallback_phrase |-> IF fb THEN phrase[i] ELSE PyNone,
                   notification_sent_at |-> NotificationOf(logs, base[i]["protocolo"]) ]
                 @@ base[i]]]

\* The mask taken as every row whose priority is not the lowest.
AltaRows_NotBaixa(base) ==
    {i \in 1..Len(base) : base[i]["prioridade"] \in {"Alta", "Média"}}

\* alta_prioridade_mask: the rows a notification delay is drawn for.
AltaRows(base) == {i \in 1..Len(base) : base[i]["prioridade"] = "Alta"}

\* The simulation of lines 287-300; fb[i] is the fallback drawn for row i and
\* delay[i] the minutes drawn for the high-priority row i.
EnrichWithoutLogs(base, fb, delay) ==
    [i \in 1..Len(base) |->
        [ fallback |-> fb[i],
          fallback_phrase |-> PyNone,
          notification_sent_at |->
              IF i \in AltaRows(base)
              THEN base[i]["created_at"] + delay[i] ELSE NaT ] @@ base[i]]

\* ---------------------------------------------------- generate_synthetic_data

\* f"SUP-{created_at.strftime('%Y%m%d')}-{i:05d}" for the days of the model.
SupLabel(days, i) ==
    CASE days = 0 /\ i = 0 -> "SUP-day00-00000"
      [] days = 0 /\ i = 1 -> "SUP-day00-00001"
      [] days = 0 /\ i = 2 -> "SUP-day00-00002"
      [] days = 0 -> "SUP-day00-00003"
      [] i = 0 -> "SUP-day89-00000"
      [] i = 1 -> "SUP-day89-00001"
      [] i = 2 -> "SUP-day89-00002"
      [] OTHER -> "SUP-day89-00003"

\* The iteration with escalated drawn for every priority.
SyntheticRow_EscalatesAny(i, d, start) ==
    LET created_at == start + d.days * 1440 + d.hours * 60 + d.minutes
        completed_at == created_at + d.duration
        pr == d.pr
        has_delay == pr = "Alta" /\ d.delay # 0
        notification_sent_at == IF has_delay THEN created_at + d.delay ELSE NaT
        slots_total == 6
        abandoned == d.abandoned
        escalated == d.esc
    IN [ conversation_id |-> ConvId(i + 1),
         channel |-> d.channel,
         uf |-> d.uf,
         priority |-> pr,
         created_at |-> created_at,
         completed_at |-> IF ~abandoned THEN completed_at ELSE NaT,
         notification_sent_at |-> notification_sent_at,
         fallback |-> d.fallback,
         fallback_phrase |-> IF d.fallback THEN d.phrase ELSE PyNone,
         slots_filled |-> d.slots,
         slots_total |-> slots_total,
         escalated |-> escalated,
         abandoned |-> abandoned,
         intent_final |-> IF ~abandoned THEN "create_report" ELSE "fallback",
         protocol |-> SupLabel(d.days, i) ]

\* One iteration of the loop, i counted from 0; d holds what the generator
\* rng draws in it, start is datetime.now() - timedelta(days=90).
SyntheticRow(i, d, start) ==
    LET created_at == start + d.days * 1440 + d.hours * 60 + d.minutes
        completed_at == created_at + d.duration
        pr == d.pr
        has_delay == pr = "Alta" /\ d.delay # 0
        notification_sent_at == IF has_delay THEN created_at + d.delay ELSE NaT
        slots_total == 6
        abandoned == d.abandoned
        escalated == pr = "Alta" /\ d.esc
    IN [ conversation_id |-> ConvId(i + 1),
         channel |-> d.channel,
         uf |-> d.uf,
         priority |-> pr,
         created_at |-> created_at,
         completed_at |-> IF ~abandoned THEN completed_at ELSE NaT,
         notification_sent_at |-> notification_sent_at,
         fallback |-> d.fallback,
         fallback_phrase |-> IF d.fallback THEN d.phrase ELSE PyNone,
         slots_filled |-> d.slots,
         slots_total |-> slots_total,
         escalated |-> escalated,
         abandoned |-> abandoned,
         intent_final |-> IF ~abandoned THEN "create_report" ELSE "fallback",
         protocol |-> SupLabel(d.days, i) ]

\* generate_synthetic_data(num_rows), draws[k] being the draws of row k - 1.
generate_synthetic_data(num_rows, draws, now) ==
    [k \in 1..num_rows |-> SyntheticRow(k - 1, draws[k], now - 90 * 1440)]

\* What the draws of one iteration can be: days in 0..89, hours in 0..23,
\* minutes in 0..59, duration in 1..2879, a fast delay in 1..9 or a slow one
\* in 11..359, slots in 0..5 when abandoned and in 3..6 otherwise.
BaseDraw ==
    [ days |-> 0, hours |-> 0, minutes |-> 0, duration |-> 1, pr |-> "Baixa",
      delay |-> 1, abandoned |-> FALSE, slots |-> 3, fallback |-> FALSE,
      phrase |-> "não entendi", esc |-> FALSE, channel |-> "web", uf |-> "sp" ]

SyntheticDraws ==
    { BaseDraw,
      [BaseDraw EXCEPT !.days = 89, !.hours = 23, !.minutes = 59, !.duration = 2879,
                       !.pr = "Alta", !.delay = 1, !.esc = TRUE, !.slots = 6,
                       !.fallback = TRUE, !.channel = "telegram", !.uf = "ba"],
      [BaseDraw EXCEPT !.pr = "Alta", !.delay = 9, !.abandoned = TRUE, !.slots = 0],
      [BaseDraw EXCEPT !.pr = "Alta", !.delay = 11, !.esc = TRUE, !.abandoned = TRUE,
                       !.slots = 5, !.fallback = TRUE, !.phrase = "não sei"],
      [BaseDraw EXCEPT !.pr = "Alta", !.delay = 359],
      [BaseDraw EXCEPT !.pr = "Média", !.abandoned = TRUE, !.slots = 3,
                       !.fallback = TRUE, !.phrase = "erro", !.esc = TRUE,
                       !.channel = "whatsapp", !.uf = "rj"] }

\* Stands for the default num_rows = 500 of generate_synthetic_data.
DefaultNumRows == 2

\* Stands for the 800 main() hands to load_or_generate_data.
MainNumRows == DefaultNumRows + 1

\* ---------------------------------------------------------- compute_metrics

\* A frame handed to compute_metrics: its columns and its rows.  A frame
\* with no row still has its columns; pd.DataFrame() has neither.
Frame(cols, rows) == [cols |-> cols, rows |-> rows]

\* The frame made of a list of rows: pd.DataFrame(rows).
AsFrame(rows) == Frame(Columns(rows), rows)

\* A quotient a / b, kept as its two integers.
Rate(num, den) == [num |-> num, den |-> den]

\* The literal 0 (or 0.0) the guarded divisions give.
ZeroRate == Rate(0, 1)

\* Series.sum() of an integer column over the rows S.
RECURSIVE SumOver(_, _, _)
SumOver(rows, S, col) ==
    IF S = {} THEN 0
    ELSE LET i == CHOOSE j \in S : TRUE
         IN rows[i][col] + SumOver(rows, S \ {i}, col)

\* The sum over the rows S of (rows[col] - rows['created_at']), in minutes.
RECURSIVE SumDelay(_, _, _)
SumDelay(rows, S, col) ==
    IF S = {} THEN 0
    ELSE LET i == CHOOSE j \in S : TRUE
         IN (rows[i][col] - rows[i]["created_at"]) + SumDelay(rows, S \ {i}, col)

\* The float np.nan, as a value that is no quotient.
NanFloat == [nan |-> TRUE]

\* Series.mean() of the delays of the rows S, np.nan when S is empty.
MeanDelay(rows, S, col) ==
    IF S = {} THEN NanFloat ELSE Rate(SumDelay(rows, S, col), Cardinality(S))

\* df.groupby(col).size(): the count of every non-null value of the column.
GroupSize(rows, col) ==
    LET keys == {rows[i][col] : i \in 1..Len(rows)} \ {NaN, PyNone}
    IN [k \in keys |-> Cardinality({i \in 1..Len(rows) : rows[i][col] = k})]

\* The columns the call reads on the frame df: df[col] on a column the
\* frame does not have is a KeyError.  The slot sums, the durations and the
\* conditional expressions of lines 588 and 594 are evaluated only when
\* their branch is taken.
ColumnsRead(df) ==
    LET rows == df.rows
        has(col) == col \in df.cols
        total_conv ==
            IF has("conversation_id")
            THEN Cardinality({rows[i]["conversation_id"] : i \in 1..Len(rows)} \ {NaN, PyNone})
            ELSE 0
        completed ==
            IF has("abandoned") THEN {i \in 1..Len(rows) : ~rows[i]["abandoned"]} ELSE {}
        completed_times ==
            IF has("completed_at") THEN {i \in completed : rows[i]["completed_at"] # NaT} ELSE {}
        notif ==
            IF has("notification_sent_at")
            THEN {i \in 1..Len(rows) : rows[i]["notification_sent_at"] # NaT} ELSE {}
    IN {"conversation_id", "fallback", "abandoned", "completed_at", "channel", "uf",
        "notification_sent_at"}
       \cup (IF completed # {} THEN {"slots_total", "slots_filled"} ELSE {})
       \cup (IF completed_times # {} \/ notif # {} THEN {"created_at"} ELSE {})
       \cup (IF total_conv # 0 THEN {"escalated", "priority"} ELSE {})

\* The input frame as a call that keeps its derived columns on the frame it
\* was given leaves it.
FrameAfterMetrics_NoCopy(df) ==
    Frame(df.cols \cup {"notif_delay_min"},
          [i \in 1..Len(df.rows) |-> ("notif_delay_min" :> 0) @@ df.rows[i]])

\* The input frame as the call leaves it: every selection is a new frame,
\* and duration_min and notif_delay_min are assigned on .copy() results.
FrameAfterMetrics(df) == df

\* The fallback count divided without the guard on total_conv.
GuardedRate_Unguarded(count, total_conv) == Rate(count, total_conv)

\* 0 if total_conv == 0 else count / total_conv
GuardedRate(count, total_conv) ==
    IF total_conv = 0 THEN ZeroRate ELSE Rate(count, total_conv)

\* The conversations that have a row with the value, instead of the rows.
CountWhere_Conversations(rows, col, v) ==
    Cardinality({rows[i]["conversation_id"] : i \in {j \in 1..Len(rows) : rows[j][col] = v}})

\* df[df[col] == v].shape[0]: the number of rows with the value.
CountWhere(rows, col, v) == Cardinality({i \in 1..Len(rows) : rows[i][col] = v})

\* The selection of line 572 keeping every row.
NotAbandoned_All(rows) == 1..Len(rows)

\* df[~df["abandoned"]]: the rows that are not abandoned.
NotAbandoned(rows) == {i \in 1..Len(rows) : ~rows[i]["abandoned"]}

\* compute_metrics(df); raised names the exception that leaves the call.
compute_metrics(df) ==
    IF ~(ColumnsRead(df) \subseteq df.cols)
    THEN [raised |-> "KeyError"]
    ELSE
    LET rows == df.rows
        all == 1..Len(rows)
        total_conv == Cardinality({rows[i]["conversation_id"] : i \in all} \ {NaN, PyNone})
        fallbacks == CountWhere(rows, "fallback", TRUE)
        completed == NotAbandoned(rows)
        total_slots == SumOver(rows, completed, "slots_total")
        filled_slots == SumOver(rows, completed, "slots_filled")
        slot_fill_rate ==
            IF completed = {} THEN ZeroRate
            ELSE IF total_slots > 0 THEN Rate(filled_slots, total_slots) ELSE ZeroRate
        completed_times == {i \in completed : rows[i]["completed_at"] # NaT}
        notif == {i \in all : rows[i]["notification_sent_at"] # NaT}
    IN [ raised |-> "",
         total_conv |-> total_conv,
         fallback_rate |-> GuardedRate(fallbacks, total_conv),
         slot_fill_rate |-> slot_fill_rate,
         avg_completion_min |-> MeanDelay(rows, completed_times, "completed_at"),
         escalation_rate |-> GuardedRate(CountWhere(rows, "escalated", TRUE), total_conv),
         abandonment_rate |-> GuardedRate(CountWhere(rows, "abandoned", TRUE), total_conv),
         reports_by_channel |-> GroupSize(rows, "channel"),
         reports_by_uf |-> GroupSize(rows, "uf"),
         pct_high_priority |-> GuardedRate(CountWhere(rows, "priority", "Alta"), total_conv),
         avg_notif_delay_min |-> MeanDelay(rows, notif, "notification_sent_at") ]

\* ------------------------------------------------------------------ inputs

\* datetime.now() of the invocation, in minutes.
Now == 200000

\* cutoff = datetime.now() - timedelta(days=30)
Cutoff == Now - 30 * 1440

\* A timestamp k minutes after the cutoff.
T(k) == Cutoff + k

\* Longest raw log set handed to the Session Aggregator on its own.
MaxAggLogs == 3

\* A log document with a session field, a message and a component.
LogDoc(ts, sidcol, sid, msg, comp) ==
    ("timestamp" :> ts) @@ (sidcol :> sid) @@ ("message" :> msg) @@ ("component" :> comp)

\* Documents of the denuncias_logs collection that pass the recency filter.
RecentLogDocs ==
    { LogDoc(T(10), "dialogflowSessionId", "s1", "Sessão iniciada", "SendGridService")
          @@ ("protocolo" :> "P2") @@ ("prioridade" :> "Média") @@ ("uf" :> "MG")
          @@ ("channel" :> "telegram"),
      LogDoc(T(20), "dialogflowSessionId", "s1", "Fallback detectado: não entendi", "DialogflowWebhook")
          @@ ("intentName" :> "Default Fallback Intent") @@ ("queryText" :> "não entendi"),
      LogDoc(T(20), "dialogflowSessionId", "s1", "Sessão iniciada", "DialogflowWebhook")
          @@ ("intentName" :> "Default Fallback Intent") @@ ("queryText" :> "erro"),
      LogDoc(T(30), "dialogflowSessionId", "s1", "Sessão iniciada", "DialogflowWebhook")
          @@ ("intentName" :> "Default Fallback Intent") @@ ("queryText" :> "poderia repetir"),
      LogDoc(T(30), "dialogflowSessionId", "s1", "Fluxo concluído", "SendGridService")
          @@ ("protocolo" :> "P1") @@ ("prioridade" :> "Alta") @@ ("uf" :> "SP")
          @@ ("channel" :> "whatsapp"),
      LogDoc(T(20), "dialogflowSessionId", "s2", "FLUXO CONCLUIDO", "DialogflowWebhook")
          @@ ("context.prioridade" :> "Baixa") @@ ("context.uf" :> "RJ"),
      LogDoc(T(10), "dialogflowSessionId", "s2", "Fallback detectado: não entendi", "sendgrid"),
      LogDoc(T(10), "dialogflowSessionId", "s2", "fallback detectado", "DialogflowWebhook")
          @@ ("intentName" :> "AbrirChamadoSuporte") @@ ("queryText" :> "oi"),
      LogDoc(T(10), "dialogflowSessionId", "", "Sessão iniciada", "DialogflowWebhook"),
      LogDoc(T(20), "dialogflowSessionId", "None", "Fluxo concluído", "DialogflowWebhook"),
      LogDoc(T(20), "dialogflowSessionId", PyNone, "Sessão iniciada", "DialogflowWebhook")
          @@ ("context.session_id" :> "s1"),
      LogDoc(T(10), "sessionId", "s2", "Sessão iniciada", "SendGridService"),
      LogDoc(T(20), "protocolo", "P2", "Sessão iniciada", "SendGridService"),
      ("timestamp" :> T(10)) @@ ("message" :> "Fluxo concluído")
          @@ ("component" :> "SendGridService"),
      ("timestamp" :> T(30)) @@ ("message" :> "Sessão iniciada")
          @@ ("component" :> "DialogflowWebhook")
          @@ ("context.intentName" :> "Default Fallback Intent")
          @@ ("context.queryText" :> "erro"),
      ("timestamp" :> T(10)) @@ ("dialogflowSessionId" :> "s1")
          @@ ("component" :> "DialogflowWebhook"),
      ("timestamp" :> T(10)) @@ ("dialogflowSessionId" :> "s1")
          @@ ("message" :> "Fluxo concluído") }

\* All sequences over S of length at most n.
SeqsUpTo(S, n) == UNION {[1..k -> S] : k \in 0..n}

\* Documents the recency filter of the reader leaves out: one older than
\* the cutoff, one with no timestamp field.
StaleLogDocs ==
    { LogDoc(Cutoff - 10, "dialogflowSessionId", "s1", "Fluxo concluído", "SendGridService"),
      ("dialogflowSessionId" :> "s2") @@ ("message" :> "Sessão iniciada")
          @@ ("component" :> "DialogflowWebhook") }

StoredLogDocs == RecentLogDocs \cup StaleLogDocs

\* Longest denuncias_logs collection when the logs are the primary source.
MaxLogs == 2

\* A log document carrying a protocol (flat or under context) for the
\* enrichment of the structured path.
EnrichDoc(ts, pcol, p, msg, comp) ==
    ("timestamp" :> ts) @@ (pcol :> p) @@ ("message" :> msg) @@ ("component" :> comp)

EnrichLogDocs ==
    { EnrichDoc(T(30), "protocolo", "P1", "Fallback detectado: não entendi", "DialogflowWebhook"),
      EnrichDoc(T(10), "protocolo", "P1", "Sessão iniciada", "SendGridService"),
      EnrichDoc(T(50), "protocolo", "P1", "Sessão iniciada", "SendGridService"),
      EnrichDoc(T(30), "context.protocolo", "P2", "Sessão iniciada", "SendGridService"),
      EnrichDoc(T(40), "context.protocolo", "P2", "Sessão iniciada", "DialogflowWebhook")
          @@ ("intentName" :> "Default Fallback Intent"),
      EnrichDoc(T(30), "protocolo", PyNone, "fallback detectado", "sendgrid")
          @@ ("context.protocolo" :> "P1"),
      ("timestamp" :> T(30)) @@ ("protocolo" :> "P1") @@ ("component" :> "SendGridService"),
      ("timestamp" :> T(30)) @@ ("protocolo" :> "P2")
          @@ ("message" :> "Fallback detectado: não entendi") }

\* Longest denuncias_logs collection beside a non-empty structured source.
MaxEnrichLogs == 2

\* One row of SELECT protocolo, nome, email, descricao, prioridade, status,
\* uf, created_at, titulo, data_ocorrido FROM denuncias.
CaseRow(protocolo, prioridade, uf, created_at) ==
    [ protocolo |-> protocolo, nome |-> "nome", email |-> "email",
      descricao |-> "descricao", prioridade |-> prioridade, status |-> "aberta",
      uf |-> uf, created_at |-> created_at, titulo |-> "titulo",
      data_ocorrido |-> created_at ]

CaseRows ==
    { CaseRow("P1", "Alta", "SP", T(20)),
      CaseRow("P2", "Média", "RJ", T(20)),
      CaseRow("P1", "Baixa", PyNone, T(40)),
      CaseRow(PyNone, PyNone, "SP", T(20)) }

\* Most rows the denuncias query returns.
MaxCases == 2

\* The results the query can give: ORDER BY created_at DESC.
CaseResults ==
    {q \in SeqsUpTo(CaseRows, MaxCases) :
        \A i \in 1..Len(q) : \A j \in 1..Len(q) :
            i < j => q[i].created_at >= q[j].created_at}

\* The columns of a ConversationRecord; region is the column uf.
ConversationRecordFields ==
    { "conversation_id", "channel", "uf", "priority", "created_at", "completed_at",
      "notification_sent_at", "fallback", "fallback_phrase", "slots_filled",
      "slots_total", "escalated", "abandoned", "intent_final", "protocol" }

\* One ConversationRecord as compute_metrics receives it.
MetricRow(cid, ch, uf, pr, done_at, notif_at, fb, filled, total, esc, ab) ==
    [ conversation_id |-> cid, channel |-> ch, uf |-> uf, priority |-> pr,
      created_at |-> T(0), completed_at |-> done_at,
      notification_sent_at |-> notif_at, fallback |-> fb,
      fallback_phrase |-> IF fb THEN "erro" ELSE PyNone,
      slots_filled |-> filled, slots_total |-> total,
      escalated |-> esc, abandoned |-> ab,
      intent_final |-> "AbrirChamadoSuporte", protocol |-> cid ]

\* Records of every kind the metrics tell apart: escalated high priority,
\* abandoned, a second record of the same conversation_id with a null
\* region, not abandoned without completed_at, and one with no slots.
MetricRows ==
    { MetricRow("c1", "web", "sp", "Alta", T(30), T(5), TRUE, 6, 6, TRUE, FALSE),
      MetricRow("c2", "whatsapp", "rj", "Média", NaT, NaT, FALSE, 2, 6, FALSE, TRUE),
      MetricRow("c1", "web", PyNone, "Baixa", T(20), NaT, TRUE, 3, 6, FALSE, FALSE),
      MetricRow("c3", "web", "sp", "Baixa", NaT, T(12), FALSE, 6, 6, TRUE, FALSE),
      MetricRow("c4", "telegram", "ba", "Média", T(45), NaT, FALSE, 0, 0, FALSE, FALSE) }

\* Most records in a frame handed to compute_metrics.
MaxMetricRows == 4

\* The frames compute_metrics is called on: record sets of zero to
\* MaxMetricRows rows with the record columns, the same without the
\* completed_at column (what the structured path returns), and the frame
\* pd.DataFrame() of no row and no column.
MetricFrames ==
    {Frame(ConversationRecordFields, q) : q \in SeqsUpTo(MetricRows, MaxMetricRows)}
    \cup {Frame(ConversationRecordFields \ {"completed_at"},
                [i \in 1..Len(q) |->
                    [c \in DOMAIN q[i] \ {"completed_at"} |-> q[i][c]]]) :
             q \in SeqsUpTo(MetricRows, 1)}
    \cup {Frame({}, << >>)}

\* What stands between the pipeline and a source: the connection descriptor
\* is not configured, the driver did not import, the connection or the query
\* raises, or the read succeeds.
SourceStates == {"no_descriptor", "no_driver", "query_fails", "ok"}

\* ------------------------------------------- main, from load to compute_metrics

\* One cell of a string column after clean_dataframe: str(value) of 'nan',
\* 'None' or '' becomes pd.NA and is filled with 'N/I' for uf and priority,
\* with 'unknown' for channel and conversation_id.
CleanString(col, v) ==
    IF v \in {NaN, PyNone, "", "None", "nan"}
    THEN (IF col \in {"uf", "priority"} THEN "N/I" ELSE "unknown")
    ELSE v

\* clean_dataframe(df): the string columns that exist are cleaned; the
\* datetime, boolean and numeric columns of a reconciled frame already have
\* their type and are left as they are.
clean_dataframe(df) ==
    Frame(df.cols,
          [i \in 1..Len(df.rows) |->
              [c \in DOMAIN df.rows[i] |->
                  IF c \in {"channel", "uf", "priority", "conversation_id"}
                  THEN CleanString(c, df.rows[i][c]) ELSE df.rows[i][c]]])

\* required_columns of show_main_dashboard: the default of a column the
\* frame lacks, for the row at position i. The two callable defaults read
\* protocolo; every reconciled frame has both columns, so they are not used.
RequiredDefault(df, i, col) ==
    CASE col = "conversation_id" -> DfGet(df.rows, i, "protocolo", ConvId(i))
      [] col = "channel" -> "web"
      [] col = "uf" -> "n/i"
      [] col = "priority" -> "N/I"
      [] col = "completed_at" -> NaT
      [] col = "notification_sent_at" -> NaT
      [] col = "fallback" -> FALSE
      [] col = "fallback_phrase" -> PyNone
      [] col = "slots_filled" -> 6
      [] col = "slots_total" -> 6
      [] col = "escalated" -> FALSE
      [] col = "abandoned" -> FALSE
      [] col = "intent_final" -> "create_report"
      [] col = "protocol" -> DfGet(df.rows, i, "protocolo", "SUP-")

\* The columns required_columns names.
RequiredColumns == ConversationRecordFields \ {"created_at"}

\* Lines 935-957: every required column the frame lacks is added with its
\* default.
FillRequiredColumns(df) ==
    LET missing == RequiredColumns \ df.cols
    IN Frame(df.cols \cup RequiredColumns,
             [i \in 1..Len(df.rows) |->
                 [c \in missing |-> RequiredDefault(df, i, c)] @@ df.rows[i]])

\* The frame compute_metrics receives in the dashboard for a frame the
\* Reconciler returned, with the filters of the sidebar left at their defaults.
FrameForMetrics(rows) == FillRequiredColumns(clean_dataframe(AsFrame(rows)))

\* ------------------------------------------------------------------- state

VARIABLES
    pc,            \* where the invocation stands
    pg_source,     \* one of SourceStates, for the structured store
    pg_rows,       \* what the denuncias query returns when it succeeds
    mongo_source,  \* one of SourceStates, for the log store
    mongo_docs,    \* the documents of the denuncias_logs collection
    pg_data,       \* pg_data of combine_postgres_and_mongo_data
    mongo_logs,    \* mongo_logs of combine_postgres_and_mongo_data
    sessions_df,   \* what transform_logs_to_sessions(mongo_logs) gave
    result,        \* the frame combine_postgres_and_mongo_data returns
    path,          \* "A" structured, "B" logs only, "C" synthetic, "" none yet
    attrs,         \* result.attrs: << >>, or << logs >> for attrs['mongo_logs']
    raised,        \* the exception that left the function, "" when none
    pg_queries,    \* queries sent to the structured store
    mongo_queries, \* queries sent to the log store
    df_perm,       \* the rows of mongo_logs in another order
    agg_perm,      \* what transform_logs_to_sessions(df_perm) gave
    num_rows,      \* the num_rows handed to load_or_generate_data
    m_input,       \* the frame handed to compute_metrics, as it was before
    m_df,          \* the same frame object, as the calls leave it
    metrics,       \* what compute_metrics(m_df) returned
    metrics_again  \* what a second compute_metrics(m_df) returned

vars == << pc, pg_source, pg_rows, mongo_source, mongo_docs, pg_data, mongo_logs,
           sessions_df, result, path, attrs, raised, pg_queries, mongo_queries,
           df_perm, agg_perm, num_rows, m_input, m_df, metrics, metrics_again >>

\* The variables of compute_metrics.
mvars == << m_input, m_df, metrics, metrics_again >>

NoAgg == [raised |-> "", sessions |-> << >>]

\* compute_metrics not called.
NoMetrics == [raised |-> "not called"]

MetricsIdle ==
    /\ m_input = Frame({}, << >>)
    /\ m_df = Frame({}, << >>)
    /\ metrics = NoMetrics
    /\ metrics_again = NoMetrics

\* --------------------------------------- combine_postgres_and_mongo_data

\* The state before the call: nothing read, the sources in any condition.
\* Beside a non-empty structured result the collection holds enrichment
\* documents; otherwise it holds session logs.
Init ==
    /\ pc = "start"
    /\ \/ pg_source \in SourceStates \ {"ok"} /\ pg_rows = << >>
       \/ pg_source = "ok" /\ pg_rows \in CaseResults
    /\ \/ mongo_source \in SourceStates \ {"ok"} /\ mongo_docs = << >>
       \/ /\ mongo_source = "ok"
          /\ IF pg_source = "ok" /\ pg_rows # << >>
             THEN mongo_docs \in SeqsUpTo(EnrichLogDocs, MaxEnrichLogs)
             ELSE mongo_docs \in SeqsUpTo(StoredLogDocs, MaxLogs)
    /\ pg_data = << >>
    /\ mongo_logs = << >>
    /\ sessions_df = NoAgg
    /\ result = << >>
    /\ path = ""
    /\ attrs = << >>
    /\ raised = ""
    /\ pg_queries = 0
    /\ mongo_queries = 0
    /\ df_perm = << >>
    /\ agg_perm = NoAgg
    /\ num_rows = MainNumRows
    /\ MetricsIdle

\* The structured read repeated once after a failure or an empty result.
LoadPostgres_Retry ==
    /\ pc = "start"
    /\ IF pg_source \notin {"no_descriptor", "no_driver"}
       THEN LET r == load_denuncias_from_postgres(pg_source, pg_rows)
            IN /\ pg_data' = r.df
               /\ pg_queries' = IF r.df = << >> THEN pg_queries + 2 ELSE pg_queries + 1
       ELSE /\ pg_data' = << >>
            /\ pg_queries' = pg_queries
    /\ pc' = "pg_loaded"
    /\ UNCHANGED << pg_source, pg_rows, mongo_source, mongo_docs, mongo_logs,
                    sessions_df, result, path, attrs, raised, mongo_queries,
                    df_perm, agg_perm, num_rows, mvars >>

\* Lines 203-207: the structured read, made only with a descriptor and a
\* driver.  An exception of the reader would leave the function here.
LoadPostgres ==
    /\ pc = "start"
    /\ IF pg_source \notin {"no_descriptor", "no_driver"}
       THEN LET r == load_denuncias_from_postgres(pg_source, pg_rows)
            IN /\ pg_data' = r.df
               /\ raised' = r.raised
               /\ pc' = IF r.raised # "" THEN "raised" ELSE "pg_loaded"
               /\ pg_queries' = pg_queries + 1
       ELSE /\ pg_data' = << >>
            /\ pg_queries' = pg_queries
            /\ pc' = "pg_loaded"
            /\ UNCHANGED raised
    /\ UNCHANGED << pg_source, pg_rows, mongo_source, mongo_docs, mongo_logs,
                    sessions_df, result, path, attrs, mongo_queries,
                    df_perm, agg_perm, num_rows, mvars >>

\* Line 210: the log read.  An exception of the reader would leave the
\* function here.
LoadMongo ==
    /\ pc = "pg_loaded"
    /\ LET r == load_mongodb_logs(mongo_source, mongo_docs, Cutoff)
       IN /\ mongo_logs' = r.df
          /\ raised' = r.raised
          /\ pc' = IF r.raised # "" THEN "raised" ELSE "loaded"
    /\ mongo_queries' =
          IF mongo_source \in {"no_descriptor", "no_driver"}
          THEN mongo_queries ELSE mongo_queries + 1
    /\ UNCHANGED << pg_source, pg_rows, mongo_source, mongo_docs, pg_data,
                    sessions_df, result, path, attrs, pg_queries,
                    df_perm, agg_perm, num_rows, mvars >>

\* Lines 213-306: the structured path, with or without logs to enrich from.
StructuredPath ==
    /\ pc = "loaded"
    /\ pg_data # << >>
    /\ LET base == StructuredBase(pg_data)
           rows == 1..Len(pg_data)
       IN IF mongo_logs # << >>
          THEN \E phrase \in [FallbackRows(base, mongo_logs) -> sample_phrases] :
                 LET e == EnrichWithLogs(base, mongo_logs, phrase)
                 IN IF e.raised # ""
                    THEN /\ raised' = e.raised
                         /\ pc' = "raised"
                         /\ UNCHANGED << result, path, attrs >>
                    ELSE /\ result' = e.rows
                         /\ path' = "A"
                         /\ attrs' = << mongo_logs >>
                         /\ pc' = "done"
                         /\ UNCHANGED raised
          ELSE \E fb \in [rows -> BOOLEAN] : \E delay \in [AltaRows(base) -> NotifDelayChoices] :
                 /\ result' = EnrichWithoutLogs(base, fb, delay)
                 /\ path' = "A"
                 /\ attrs' = << mongo_logs >>
                 /\ pc' = "done"
                 /\ UNCHANGED raised
    /\ UNCHANGED << pg_source, pg_rows, mongo_source, mongo_docs, pg_data,
                    mongo_logs, sessions_df, pg_queries, mongo_queries,
                    df_perm, agg_perm, num_rows, mvars >>

\* The logs-only path tried whenever there are logs, before looking at the
\* structured frame.
LogsOnlyPath_LogsFirst ==
    /\ pc = "loaded"
    /\ mongo_logs # << >>
    /\ sessions_df' = transform_logs_to_sessions(mongo_logs)
    /\ IF sessions_df'.raised # ""
       THEN /\ raised' = sessions_df'.raised
            /\ pc' = "raised"
            /\ UNCHANGED << result, path >>
       ELSE IF Len(sessions_df'.sessions) > 0
       THEN /\ result' = sessions_df'.sessions
            /\ path' = "B"
            /\ pc' = "done"
            /\ UNCHANGED raised
       ELSE /\ pc' = "synthetic"
            /\ UNCHANGED << result, path, raised >>
    /\ UNCHANGED << pg_source, pg_rows, mongo_source, mongo_docs, pg_data,
                    mongo_logs, attrs, pg_queries, mongo_queries, df_perm, agg_perm, num_rows, mvars >>

\* The logs-only path returning the sessions frame without looking at its
\* length.
LogsOnlyPath_NoLenCheck ==
    /\ pc = "loaded"
    /\ pg_data = << >>
    /\ mongo_logs # << >>
    /\ sessions_df' = transform_logs_to_sessions(mongo_logs)
    /\ IF sessions_df'.raised # ""
       THEN /\ raised' = sessions_df'.raised
            /\ pc' = "raised"
            /\ UNCHANGED << result, path >>
       ELSE /\ result' = sessions_df'.sessions
            /\ path' = "B"
            /\ pc' = "done"
            /\ UNCHANGED raised
    /\ UNCHANGED << pg_source, pg_rows, mongo_source, mongo_docs, pg_data,
                    mongo_logs, attrs, pg_queries, mongo_queries, df_perm, agg_perm, num_rows, mvars >>

\* Lines 309-313: the logs-only path; an empty sessions frame falls through
\* to line 316.
LogsOnlyPath ==
    /\ pc = "loaded"
    /\ pg_data = << >>
    /\ mongo_logs # << >>
    /\ sessions_df' = transform_logs_to_sessions(mongo_logs)
    /\ IF sessions_df'.raised # ""
       THEN /\ raised' = sessions_df'.raised
            /\ pc' = "raised"
            /\ UNCHANGED << result, path >>
       ELSE IF Len(sessions_df'.sessions) > 0
       THEN /\ result' = sessions_df'.sessions
            /\ path' = "B"
            /\ pc' = "done"
            /\ UNCHANGED raised
       ELSE /\ pc' = "synthetic"
            /\ UNCHANGED << result, path, raised >>
    /\ UNCHANGED << pg_source, pg_rows, mongo_source, mongo_docs, pg_data,
                    mongo_logs, attrs, pg_queries, mongo_queries, df_perm, agg_perm, num_rows, mvars >>

\* The synthetic path attaching the raw logs to the frame it returns.
SyntheticPath_AttachesLogs ==
    /\ \/ pc = "loaded" /\ pg_data = << >> /\ mongo_logs = << >>
       \/ pc = "synthetic"
    /\ \E draws \in [1..DefaultNumRows -> SyntheticDraws] :
          result' = generate_synthetic_data(DefaultNumRows, draws, Now)
    /\ path' = "C"
    /\ attrs' = << mongo_logs >>
    /\ pc' = "done"
    /\ UNCHANGED << pg_source, pg_rows, mongo_source, mongo_docs, pg_data,
                    mongo_logs, sessions_df, raised, pg_queries,
                    mongo_queries, df_perm, agg_perm, num_rows, mvars >>

\* Lines 316-317: the synthetic path, reached with both frames empty or from
\* the logs-only path.
SyntheticPath ==
    /\ \/ pc = "loaded" /\ pg_data = << >> /\ mongo_logs = << >>
       \/ pc = "synthetic"
    /\ \E draws \in [1..DefaultNumRows -> SyntheticDraws] :
          result' = generate_synthetic_data(DefaultNumRows, draws, Now)
    /\ path' = "C"
    /\ pc' = "done"
    /\ UNCHANGED << pg_source, pg_rows, mongo_source, mongo_docs, pg_data,
                    mongo_logs, sessions_df, attrs, raised, pg_queries,
                    mongo_queries, df_perm, agg_perm, num_rows, mvars >>

Next == LoadPostgres \/ LoadMongo \/ StructuredPath \/ LogsOnlyPath \/ SyntheticPath

Spec == Init /\ [][Next]_vars

\* ---------------------------------------- the Session Aggregator by itself

\* Any raw log frame the reader can return, handed to the aggregator.
InitAgg ==
    /\ pc = "agg_input"
    /\ mongo_logs \in SeqsUpTo(RecentLogDocs, MaxAggLogs) \ { << >> }
    /\ pg_source = "no_descriptor"
    /\ pg_rows = << >>
    /\ mongo_source = "ok"
    /\ mongo_docs = mongo_logs
    /\ pg_data = << >>
    /\ sessions_df = NoAgg
    /\ result = << >>
    /\ path = ""
    /\ attrs = << >>
    /\ raised = ""
    /\ pg_queries = 0
    /\ mongo_queries = 0
    /\ df_perm = << >>
    /\ agg_perm = NoAgg
    /\ num_rows = MainNumRows
    /\ MetricsIdle

\* sessions_df = transform_logs_to_sessions(mongo_logs)
Aggregate ==
    /\ pc = "agg_input"
    /\ sessions_df' = transform_logs_to_sessions(mongo_logs)
    /\ raised' = sessions_df'.raised
    /\ pc' = "aggregated"
    /\ UNCHANGED << pg_source, pg_rows, mongo_source, mongo_docs, pg_data,
                    mongo_logs, result, path, attrs, pg_queries, mongo_queries,
                    df_perm, agg_perm, num_rows, mvars >>

\* The same call on the rows of mongo_logs in another order.
AggregatePermuted ==
    /\ pc = "aggregated"
    /\ \E p \in Permutations(1..Len(mongo_logs)) :
        /\ df_perm' = [i \in 1..Len(mongo_logs) |-> mongo_logs[p[i]]]
        /\ agg_perm' = transform_logs_to_sessions(df_perm')
    /\ pc' = "compared"
    /\ UNCHANGED << pg_source, pg_rows, mongo_source, mongo_docs, pg_data,
                    mongo_logs, sessions_df, result, path, attrs, raised,
                    pg_queries, mongo_queries, num_rows, mvars >>

NextAgg == Aggregate

SpecAgg == InitAgg /\ [][NextAgg]_vars

NextPerm == Aggregate \/ AggregatePermuted

SpecPerm == InitAgg /\ [][NextPerm]_vars

\* ------------------------------------------------- compute_metrics by itself

InitMetrics ==
    /\ pc = "metrics_input"
    /\ m_input \in MetricFrames
    /\ m_df = m_input
    /\ metrics = NoMetrics
    /\ metrics_again = NoMetrics
    /\ pg_source = "no_descriptor"
    /\ pg_rows = << >>
    /\ mongo_source = "no_descriptor"
    /\ mongo_docs = << >>
    /\ pg_data = << >>
    /\ mongo_logs = << >>
    /\ sessions_df = NoAgg
    /\ result = << >>
    /\ path = ""
    /\ attrs = << >>
    /\ raised = ""
    /\ pg_queries = 0
    /\ mongo_queries = 0
    /\ df_perm = << >>
    /\ agg_perm = NoAgg
    /\ num_rows = MainNumRows

\* metrics = compute_metrics(filtered)
ComputeMetrics ==
    /\ pc = "metrics_input"
    /\ metrics' = compute_metrics(m_df)
    /\ m_df' = FrameAfterMetrics(m_df)
    /\ raised' = metrics'.raised
    /\ pc' = "metrics_once"
    /\ UNCHANGED << pg_source, pg_rows, mongo_source, mongo_docs, pg_data,
                    mongo_logs, sessions_df, result, path, attrs, pg_queries,
                    mongo_queries, df_perm, agg_perm, num_rows, m_input,
                    metrics_again >>

\* A second call on the same frame object.
ComputeMetricsAgain ==
    /\ pc = "metrics_once"
    /\ metrics_again' = compute_metrics(m_df)
    /\ m_df' = FrameAfterMetrics(m_df)
    /\ pc' = "metrics_twice"
    /\ UNCHANGED << pg_source, pg_rows, mongo_source, mongo_docs, pg_data,
                    mongo_logs, sessions_df, result, path, attrs, raised,
                    pg_queries, mongo_queries, df_perm, agg_perm, num_rows,
                    m_input, metrics >>

NextMetrics == ComputeMetrics \/ ComputeMetricsAgain

SpecMetrics == InitMetrics /\ [][NextMetrics]_vars

\* ------------------------------------------------------------------ claims

Returned == pc = "done"

\* C1: the path that produces the result follows the fixed precedence.  A
\* returned result comes from exactly one path; it is the structured path
\* exactly when the structured read is non-empty, the logs-only path exactly
\* when the structured read is empty and the aggregator yields a session,
\* the synthetic path exactly when the structured read is empty and the log
\* set is empty or aggregates to no session.  With a non-empty structured
\* read neither the aggregator nor the generator is ever entered.
C1_PathPrecedence ==
    /\ Returned =>
        /\ path \in {"A", "B", "C"}
        /\ path = "A" <=> pg_data # << >>
        /\ path = "B" <=>
              /\ pg_data = << >>
              /\ mongo_logs # << >>
              /\ Len(transform_logs_to_sessions(mongo_logs).sessions) >= 1
        /\ path = "C" <=>
              /\ pg_data = << >>
              /\ \/ mongo_logs = << >>
                 \/ Len(transform_logs_to_sessions(mongo_logs).sessions) = 0
        /\ path = "B" => result = transform_logs_to_sessions(mongo_logs).sessions
    /\ pc \in {"loaded", "synthetic", "done", "raised"} /\ pg_data # << >> =>
        /\ path \in {"", "A"}
        /\ sessions_df = NoAgg
        /\ pc # "synthetic"

\* C1 witness: the synthetic path taken with a non-empty log set that
\* aggregates to no session.
C1_Witness ==
    /\ Returned /\ path = "C"
    /\ pg_data = << >> /\ mongo_logs # << >>
    /\ sessions_df.raised = "" /\ sessions_df.sessions = << >>

\* C2: whatever the two sources did (no descriptor, no driver, failed query,
\* empty read, non-empty read), the frame that is returned has a row.
C2_NeverEmpty == Returned => Len(result) >= 1

\* C2 witness: both queries failed and a non-empty frame was returned.
C2_Witness ==
    /\ Returned
    /\ pg_source = "query_fails" /\ mongo_source = "query_fails"
    /\ Len(result) >= 1

\* C3: no exception leaves combine_postgres_and_mongo_data: a failure inside
\* a state is caught and the next state is entered.
C3_NoExceptionSurfaced == pc # "raised" /\ raised = ""

\* A column of a returned row; a column the frame does not have reads as null.
FieldOrNull(rec, f, null) == IF f \in DOMAIN rec THEN rec[f] ELSE null

\* C4: in every returned row, abandoned is true exactly when completed_at is
\* null.
C4_AbandonedIffNotCompleted ==
    Returned =>
        \A i \in 1..Len(result) :
            result[i]["abandoned"] <=> FieldOrNull(result[i], "completed_at", NaT) = NaT

\* C5: in every returned row channel, region and priority are non-null.
C5_ChannelRegionPriorityNotNull ==
    Returned =>
        \A i \in 1..Len(result) : \A f \in {"channel", "uf", "priority"} :
            ~IsNa(FieldOrNull(result[i], f, PyNone))

\* C6: every returned row carries every ConversationRecord column, whichever
\* path built it.
C6_FixedFieldSet ==
    Returned =>
        \A i \in 1..Len(result) : ConversationRecordFields \subseteq DOMAIN result[i]

\* C7: on the structured path there is one row per case row, with channel
\* "web", slots 6 of 6, conversation_id and protocol equal to the protocol of
\* the case row, and escalated exactly for priority "Alta".
C7_StructuredMapping ==
    Returned /\ path = "A" =>
        /\ Len(result) = Len(pg_data)
        /\ \A i \in 1..Len(result) :
            /\ result[i]["channel"] = "web"
            /\ result[i]["slots_filled"] = 6
            /\ result[i]["slots_total"] = 6
            /\ result[i]["conversation_id"] = pg_data[i]["protocolo"]
            /\ result[i]["protocol"] = pg_data[i]["protocolo"]
            /\ result[i]["escalated"] <=> pg_data[i]["prioridade"] = "Alta"

\* C7 witness: two case rows enriched from a non-empty log set, one of
\* priority "Alta" and one of priority "Média".
C7_Witness ==
    /\ Returned /\ path = "A"
    /\ mongo_logs # << >>
    /\ Len(result) = 2
    /\ result[1]["priority"] = "Alta" /\ result[1]["escalated"]
    /\ result[2]["priority"] = "Média" /\ ~result[2]["escalated"]

\* The session identifier the aggregator resolves for row i of the raw frame.
ResolvedSessionId(df, i) == WithSessionId(df)[i]["session_id"]

\* The intent label and the query text of row i: the flat column, or the
\* context.-prefixed one when the frame has no flat column.
FlatOrContext(df, i, col) ==
    IF col \in Columns(df) THEN Cell(df, i, col)
    ELSE IF Ctx(col) \in Columns(df) THEN Cell(df, i, Ctx(col))
    ELSE PyNone

\* The message of row i contains a completion token, whatever its case.
HasCompletionToken(df, i) ==
    \E f \in Fragments(Cell(df, i, "message")) :
        Lower(f) \in {"concluído", "concluido", "fluxo"}

Aggregated == pc = "aggregated" /\ sessions_df.raised = ""

\* C8: the aggregator returns one record per distinct resolved session
\* identifier other than null, '' and 'None'; its created_at is the earliest
\* timestamp of the group, its completed_at the earliest timestamp among the
\* entries of the group whose message contains a completion token, and it is
\* abandoned exactly when no entry of the group has one.
C8_OneRecordPerSession ==
    Aggregated =>
        LET df == mongo_logs
            rows == 1..Len(df)
            out == sessions_df.sessions
            ids == {ResolvedSessionId(df, i) : i \in rows} \ {NaN, PyNone, "", "None"}
        IN /\ Len(out) = Cardinality(ids)
           /\ {out[k]["conversation_id"] : k \in 1..Len(out)} = ids
           /\ \A k \in 1..Len(out) :
                LET G == {i \in rows : ResolvedSessionId(df, i) = out[k]["conversation_id"]}
                    M == {i \in G : HasCompletionToken(df, i)}
                IN /\ \E i \in G : out[k]["created_at"] = df[i]["timestamp"]
                   /\ \A i \in G : out[k]["created_at"] <= df[i]["timestamp"]
                   /\ M = {} => out[k]["completed_at"] = NaT
                   /\ M # {} =>
                        /\ \E i \in M : out[k]["completed_at"] = df[i]["timestamp"]
                        /\ \A i \in M : out[k]["completed_at"] <= df[i]["timestamp"]
                   /\ out[k]["abandoned"] <=> M = {}

\* C8 witness: three entries give two sessions, one abandoned and one
\* completed after it was opened, the completion written in upper case.
C8_Witness ==
    /\ Aggregated
    /\ Len(mongo_logs) = 3
    /\ Len(sessions_df.sessions) = 2
    /\ sessions_df.sessions[1]["abandoned"]
    /\ ~sessions_df.sessions[2]["abandoned"]
    /\ sessions_df.sessions[2]["completed_at"] > sessions_df.sessions[2]["created_at"]
    /\ \E i \in 1..3 : Cell(mongo_logs, i, "message") = "FLUXO CONCLUIDO"

\* C9: a session has fallback set exactly when an entry of its group has the
\* intent label "Default Fallback Intent" or a message containing "Fallback
\* detectado"; through the label, fallback_phrase is the query text of an
\* entry of earliest timestamp among those carrying the label; through the
\* message alone, fallback_phrase is null.
C9_FallbackAndPhrase ==
    Aggregated =>
        LET df == mongo_logs
            rows == 1..Len(df)
            out == sessions_df.sessions
        IN \A k \in 1..Len(out) :
            LET G == {i \in rows : ResolvedSessionId(df, i) = out[k]["conversation_id"]}
                L == {i \in G : FlatOrContext(df, i, "intentName") = "Default Fallback Intent"}
                D == {i \in G : "Fallback detectado" \in Fragments(Cell(df, i, "message"))}
            IN /\ out[k]["fallback"] <=> (L # {} \/ D # {})
               /\ L # {} =>
                    \E i \in L :
                        /\ \A j \in L : df[i]["timestamp"] <= df[j]["timestamp"]
                        /\ out[k]["fallback_phrase"] = FlatOrContext(df, i, "queryText")
               /\ L = {} /\ D # {} => out[k]["fallback_phrase"] = PyNone

\* C9 witness: the first row of the input carries the label at a later time
\* than another labelled row of the same session, whose query text is the
\* phrase of the session.
C9_Witness ==
    /\ Aggregated
    /\ Len(mongo_logs) >= 2
    /\ FlatOrContext(mongo_logs, 1, "intentName") = "Default Fallback Intent"
    /\ FlatOrContext(mongo_logs, 1, "queryText") = "poderia repetir"
    /\ \E k \in 1..Len(sessions_df.sessions) :
        /\ sessions_df.sessions[k]["conversation_id"] = ResolvedSessionId(mongo_logs, 1)
        /\ sessions_df.sessions[k]["fallback"]
        /\ sessions_df.sessions[k]["fallback_phrase"] = "não entendi"

\* The records of a sessions frame, as a set.
Records(frame) == {frame[k] : k \in 1..Len(frame)}

\* C10: the aggregator gives the same session groups with the same derived
\* fields for every order of the same raw log entries.
C10_OrderIndependent ==
    pc = "compared" =>
        /\ agg_perm.raised = sessions_df.raised
        /\ Records(agg_perm.sessions) = Records(sessions_df.sessions)

\* The rates of a metrics record.
RateFields ==
    {"fallback_rate", "slot_fill_rate", "escalation_rate", "abandonment_rate",
     "pct_high_priority"}

MetricsComputed == pc \in {"metrics_once", "metrics_twice"}

C13_ConfiguredRowCount ==
    Returned /\ pg_data = << >> /\ mongo_logs = << >> =>
        /\ path = "C"
        /\ Len(result) = num_rows
        /\ \A i \in 1..Len(result) : result[i]["conversation_id"] = ConvId(i)
        /\ \A i \in 1..Len(result) : \A j \in 1..Len(result) :
              i # j => result[i]["conversation_id"] # result[j]["conversation_id"]

\* The state of the sources a reader gives an empty frame for.
Unusable(source) == source \in {"no_descriptor", "no_driver", "query_fails"}

\* C14: each reader, called on a source with no descriptor, no driver or a
\* failing query, returns the empty frame and raises nothing; no exception
\* of a reader leaves the invocation, the frame read from such a source is
\* empty, and the result then comes from a path that does not use the
\* source: never the structured path without the structured source, never
\* the aggregator, and no log enrichment, without the log store.
C14_ReadersDegradeToEmpty ==
    /\ Unusable(pg_source) => load_denuncias_from_postgres(pg_source, pg_rows) = Returns(<< >>)
    /\ Unusable(mongo_source) => load_mongodb_logs(mongo_source, mongo_docs, Cutoff) = Returns(<< >>)
    /\ raised \notin ReaderErrors
    /\ pc \in {"start", "pg_loaded", "loaded"} => raised = ""
    /\ pc # "start" /\ Unusable(pg_source) => pg_data = << >>
    /\ pc \notin {"start", "pg_loaded"} /\ Unusable(mongo_source) => mongo_logs = << >>
    /\ Returned /\ Unusable(pg_source) => path # "A"
    /\ Returned /\ Unusable(mongo_source) =>
          /\ path # "B"
          /\ sessions_df = NoAgg
          /\ path = "A" => attrs = << << >> >> /\ \A i \in 1..Len(result) :
                                                   result[i]["fallback_phrase"] = PyNone

\* C14 witness: the structured query succeeded, the log query failed, and
\* the structured path returned without log enrichment.
C14_Witness ==
    /\ Returned /\ path = "A"
    /\ pg_source = "ok" /\ mongo_source = "query_fails"
    /\ pg_queries = 1 /\ mongo_queries = 1
    /\ mongo_logs = << >> /\ raised = ""

\* C15: in one invocation the structured store is queried at most once and
\* the log store at most once, the log store only after the structured read
\* is over, a query being sent exactly when the source has a descriptor and
\* a driver; the aggregator and the generator are entered at most once, and
\* nothing is repeated after a failure or an empty result.
C15_AtMostOneQueryEach ==
    /\ pg_queries \in {0, 1} /\ mongo_queries \in {0, 1}
    /\ pc \in {"start", "pg_loaded"} => mongo_queries = 0
    /\ pc = "start" => pg_queries = 0
    /\ pc # "start" =>
          (pg_queries = 1 <=> pg_source \notin {"no_descriptor", "no_driver"})
    /\ pc \notin {"start", "pg_loaded"} =>
          (mongo_queries = 1 <=> mongo_source \notin {"no_descriptor", "no_driver"})

\* C15 witness: both queries failed, each was sent once, and the invocation
\* went on to the synthetic path.
C15_Witness ==
    /\ Returned /\ path = "C"
    /\ pg_source = "query_fails" /\ mongo_source = "query_fails"
    /\ pg_queries = 1 /\ mongo_queries = 1

\* C16: conversation_id is a key of every returned record set: no two rows
\* of a result have the same conversation_id, and none has a null one.
C16_ConversationIdUnique ==
    Returned =>
        /\ \A i \in 1..Len(result) : ~IsNa(result[i]["conversation_id"])
        /\ \A i \in 1..Len(result) : \A j \in 1..Len(result) :
              i # j => result[i]["conversation_id"] # result[j]["conversation_id"]

\* The session field of the batch as the claim words it: the first of the
\* six candidates that some row carries a non-null value for.
ChosenSessionField(df) ==
    LET cand == << "dialogflowSessionId", "session_id", "sessionId",
                   "context.dialogflowSessionId", "context.session_id", "protocolo" >>
        ok == {k \in 1..6 : \E i \in 1..Len(df) :
                  cand[k] \in DOMAIN df[i] /\ df[i][cand[k]] \notin {NaN, PyNone}}
    IN IF ok = {} THEN PyNone ELSE cand[CHOOSE k \in ok : \A m \in ok : k <= m]

\* The identifier the claim gives row i: its value of the chosen field, or
\* its row position when it has none.
ClaimedSessionId(df, i) ==
    LET col == ChosenSessionField(df)
    IN IF col # PyNone /\ col \in DOMAIN df[i] /\ df[i][col] \notin {NaN, PyNone}
       THEN df[i][col] ELSE IndexStr(i)

\* C17: the batch is grouped on the first candidate field that has a
\* non-null value; a row with no value in that field is grouped under its
\* row position, so every entry belongs to the session of some record
\* (identifiers '' and 'None' apart).
C17_RowsWithoutFieldFallBack ==
    Aggregated =>
        \A i \in 1..Len(mongo_logs) :
            ClaimedSessionId(mongo_logs, i) \notin {"", "None"} =>
                \E k \in 1..Len(sessions_df.sessions) :
                    /\ sessions_df.sessions[k]["conversation_id"] = ClaimedSessionId(mongo_logs, i)
                    /\ sessions_df.sessions[k]["created_at"] <= mongo_logs[i]["timestamp"]

\* The first non-null value of a field in the group G of the frame df, in
\* time order: v is the value of an entry that has one, and no entry that
\* has one is earlier.
IsFirstValue(df, G, col, v) ==
    LET V == {i \in G : ~IsNa(FlatOrContext(df, i, col))}
    IN \E i \in V :
          /\ FlatOrContext(df, i, col) = v
          /\ \A j \in V : df[i]["timestamp"] <= df[j]["timestamp"]

HasValue(df, G, col) == \E i \in G : ~IsNa(FlatOrContext(df, i, col))

C19_NotificationAndEscalation ==
    Aggregated =>
        LET df == mongo_logs
            out == sessions_df.sessions
        IN \A k \in 1..Len(out) :
            LET G == {i \in 1..Len(df) : ResolvedSessionId(df, i) = out[k]["conversation_id"]}
                N == {i \in G : "SendGrid" \in Fragments(Cell(df, i, "component"))}
            IN /\ N = {} => out[k]["notification_sent_at"] = NaT
               /\ N # {} =>
                    /\ \E i \in N : out[k]["notification_sent_at"] = df[i]["timestamp"]
                    /\ \A i \in N : out[k]["notification_sent_at"] <= df[i]["timestamp"]
               /\ out[k]["escalated"] <=> out[k]["notification_sent_at"] # NaT
               /\ out[k]["slots_filled"] = 6 /\ out[k]["slots_total"] = 6

\* C19 witness: a session with two SendGrid entries, the later one first in
\* the input, is escalated at the time of the earlier one.
C19_Witness ==
    /\ Aggregated
    /\ Len(mongo_logs) >= 2
    /\ "SendGrid" \in Fragments(Cell(mongo_logs, 1, "component"))
    /\ \E k \in 1..Len(sessions_df.sessions) :
        /\ sessions_df.sessions[k]["conversation_id"] = ResolvedSessionId(mongo_logs, 1)
        /\ sessions_df.sessions[k]["escalated"]
        /\ sessions_df.sessions[k]["notification_sent_at"] < mongo_logs[1]["timestamp"]

\* Log entry j carries the protocol p in its flat or in its context-nested
\* protocol field.
CarriesProtocol(logs, j, p) ==
    /\ ~IsNa(p)
    /\ \/ "protocolo" \in DOMAIN logs[j] /\ logs[j]["protocolo"] = p
       \/ "context.protocolo" \in DOMAIN logs[j] /\ logs[j]["context.protocolo"] = p

\* Log entry j matches the fallback pattern: the message marker or the
\* fallback intent label.
IsFallbackEntry(logs, j) ==
    \/ "Fallback detectado" \in Fragments(Cell(logs, j, "message"))
    \/ Cell(logs, j, "intentName") = "Default Fallback Intent"

\* C20: on the structured path with a non-empty log set, a record has
\* fallback set exactly when a fallback-pattern log entry carries its
\* protocol (flat or context-nested); fallback_phrase is one of the fixed
\* phrases when fallback is set and null otherwise; notification_sent_at is
\* the earliest timestamp among the SendGrid log entries carrying its
\* protocol, null when there is none.
C20_LogEnrichment ==
    Returned /\ path = "A" /\ mongo_logs # << >> =>
        \A i \in 1..Len(result) :
            LET p == pg_data[i]["protocolo"]
                logs == mongo_logs
                F == {j \in 1..Len(logs) : IsFallbackEntry(logs, j) /\ CarriesProtocol(logs, j, p)}
                N == {j \in 1..Len(logs) :
                        /\ "SendGrid" \in Fragments(Cell(logs, j, "component"))
                        /\ CarriesProtocol(logs, j, p)}
            IN /\ result[i]["fallback"] <=> F # {}
               /\ result[i]["fallback"] => result[i]["fallback_phrase"] \in sample_phrases
               /\ ~result[i]["fallback"] => result[i]["fallback_phrase"] = PyNone
               /\ N = {} => result[i]["notification_sent_at"] = NaT
               /\ N # {} =>
                    /\ \E j \in N : result[i]["notification_sent_at"] = logs[j]["timestamp"]
                    /\ \A j \in N : result[i]["notification_sent_at"] <= logs[j]["timestamp"]

\* C21: on the structured path with an empty log set, notification_sent_at
\* is non-null exactly for the records of priority "Alta", where it lies
\* from 5 to 15 minutes after created_at; every other record has a null one.
C21_SimulatedNotification ==
    Returned /\ path = "A" /\ mongo_logs = << >> =>
        \A i \in 1..Len(result) :
            /\ result[i]["notification_sent_at"] # NaT <=> result[i]["priority"] = "Alta"
            /\ result[i]["priority"] = "Alta" =>
                  /\ result[i]["notification_sent_at"] >= result[i]["created_at"] + 5
                  /\ result[i]["notification_sent_at"] <= result[i]["created_at"] + 15

\* C21 witness: two case rows and no logs; the "Alta" one is notified 14
\* minutes after it was created, the "Média" one is not notified.
C21_Witness ==
    /\ Returned /\ path = "A" /\ mongo_logs = << >>
    /\ Len(result) = 2
    /\ result[1]["priority"] = "Alta"
    /\ result[1]["notification_sent_at"] = result[1]["created_at"] + 14
    /\ result[2]["priority"] = "Média"
    /\ result[2]["notification_sent_at"] = NaT

\* C22: a returned frame carries the raw log set of the invocation in its
\* attrs exactly when the structured path built it, an empty log set
\* included; the frames of the logs-only and synthetic paths carry none.
C22_SideChannelOnlyOnStructured ==
    Returned =>
        /\ path = "A" => attrs = << mongo_logs >>
        /\ path \in {"B", "C"} => attrs = << >>

\* C22 witness: the structured path returned with the empty log set
\* attached, the log store having been read and found empty.
C22_Witness ==
    /\ Returned /\ path = "A"
    /\ mongo_source = "ok" /\ mongo_logs = << >>
    /\ attrs = << << >> >>

\* The number of rows of the frame whose column has the value.
RowsWith(rows, col, v) == Cardinality({i \in 1..Len(rows) : rows[i][col] = v})

\* The number of distinct conversation_id values of the frame.
DistinctConversations(rows) ==
    Cardinality({rows[i]["conversation_id"] : i \in 1..Len(rows)})

\* C23: for a record set with at least one row, fallback_rate,
\* escalation_rate, abandonment_rate and pct_high_priority are the number of
\* rows with fallback, escalated, abandoned and priority "Alta", each over
\* the number of distinct conversation_id values; four rows of four
\* conversations, one of them "Alta", give pct_high_priority = 1/4.
C23_RatesOverDistinctConversations ==
    MetricsComputed /\ m_input.rows # << >> /\ ConversationRecordFields \subseteq m_input.cols =>
        LET rows == m_input.rows
            n == DistinctConversations(rows)
        IN /\ metrics.raised = ""
           /\ metrics.total_conv = n
           /\ metrics.fallback_rate = Rate(RowsWith(rows, "fallback", TRUE), n)
           /\ metrics.escalation_rate = Rate(RowsWith(rows, "escalated", TRUE), n)
           /\ metrics.abandonment_rate = Rate(RowsWith(rows, "abandoned", TRUE), n)
           /\ metrics.pct_high_priority = Rate(RowsWith(rows, "priority", "Alta"), n)
           /\ Len(rows) = 4 /\ n = 4 /\ RowsWith(rows, "priority", "Alta") = 1 =>
                 metrics.pct_high_priority = Rate(1, 4)

\* C23 witness: four records of four conversations, one of priority "Alta".
C23_Witness ==
    /\ pc = "metrics_once"
    /\ Len(m_input.rows) = 4
    /\ DistinctConversations(m_input.rows) = 4
    /\ RowsWith(m_input.rows, "priority", "Alta") = 1
    /\ metrics.raised = ""
    /\ metrics.pct_high_priority = Rate(1, 4)

\* The sum of a slot column over the first n rows, abandoned rows counting
\* for nothing.
RECURSIVE SlotSum(_, _, _)
SlotSum(rows, n, col) ==
    IF n = 0 THEN 0
    ELSE (IF rows[n]["abandoned"] THEN 0 ELSE rows[n][col]) + SlotSum(rows, n - 1, col)

\* C24: slot_fill_rate is the sum of slots_filled over the sum of
\* slots_total, both taken over the rows that are not abandoned, and 0 when
\* there is no such row or the sum of slots_total is zero.
C24_SlotFillRate ==
    MetricsComputed /\ ConversationRecordFields \subseteq m_input.cols =>
        LET rows == m_input.rows
            filled == SlotSum(rows, Len(rows), "slots_filled")
            total == SlotSum(rows, Len(rows), "slots_total")
        IN /\ metrics.raised = ""
           /\ IF (\A i \in 1..Len(rows) : rows[i]["abandoned"]) \/ total = 0
              THEN metrics.slot_fill_rate.num = 0 /\ metrics.slot_fill_rate.den # 0
              ELSE metrics.slot_fill_rate = Rate(filled, total)

\* C24 witness: an abandoned record with 2 of 6 slots between two records
\* that are not abandoned, with 6 of 6 and 3 of 6: the rate is 9/12.
C24_Witness ==
    /\ pc = "metrics_once"
    /\ Len(m_input.rows) = 3
    /\ m_input.rows[2]["abandoned"] /\ m_input.rows[2]["slots_filled"] = 2
    /\ metrics.raised = ""
    /\ metrics.slot_fill_rate = Rate(9, 12)

\* C25: every row of the synthetic path has slots_total = 6; an abandoned
\* row has 0 <= slots_filled < slots_total and a null completed_at; a row
\* that is not abandoned has 3 <= slots_filled <= slots_total and a
\* completed_at; notification_sent_at is set only for priority "Alta", from
\* 1 to 360 minutes after created_at; escalated rows have priority "Alta";
\* fallback_phrase is set exactly when fallback is.
C25_SyntheticRowInvariants ==
    Returned /\ path = "C" =>
        \A i \in 1..Len(result) :
            LET r == result[i]
            IN /\ r["slots_total"] = 6
               /\ r["abandoned"] =>
                     /\ 0 <= r["slots_filled"] /\ r["slots_filled"] < r["slots_total"]
                     /\ r["completed_at"] = NaT
               /\ ~r["abandoned"] =>
                     /\ 3 <= r["slots_filled"] /\ r["slots_filled"] <= r["slots_total"]
                     /\ r["completed_at"] # NaT
               /\ r["notification_sent_at"] # NaT =>
                     /\ r["priority"] = "Alta"
                     /\ r["notification_sent_at"] - r["created_at"] \in 1..360
               /\ r["escalated"] => r["priority"] = "Alta"
               /\ r["fallback_phrase"] # PyNone <=> r["fallback"]

\* C25 witness: a synthetic frame whose first row is abandoned, of priority
\* "Média", with 3 slots and a fallback phrase, and whose second row is an
\* "Alta" row notified 359 minutes after it was created.
C25_Witness ==
    /\ Returned /\ path = "C"
    /\ Len(result) >= 2
    /\ result[1]["abandoned"] /\ result[1]["priority"] = "Média"
    /\ result[1]["slots_filled"] = 3 /\ result[1]["fallback_phrase"] = "erro"
    /\ ~result[1]["escalated"]
    /\ result[2]["priority"] = "Alta"
    /\ result[2]["notification_sent_at"] = result[2]["created_at"] + 359

\* The metrics main computes for the returned frame.
ResultMetrics == compute_metrics(FrameForMetrics(result))

\* C26: for every frame the Reconciler returns, the metrics are computed
\* and fallback_rate, escalation_rate, abandonment_rate, pct_high_priority
\* and slot_fill_rate each lie between 0 and 1 inclusive.
C26_RatesWithinUnitInterval ==
    Returned =>
        /\ ResultMetrics.raised = ""
        /\ \A f \in RateFields :
              /\ ResultMetrics[f].den > 0
              /\ 0 <= ResultMetrics[f].num
              /\ ResultMetrics[f].num <= ResultMetrics[f].den

\* C27: in every returned record a non-null notification_sent_at and a
\* non-null completed_at are not earlier than created_at, and the two
\* averaged delays of the metrics are not negative.
C27_DelaysNotNegative ==
    Returned =>
        /\ \A i \in 1..Len(result) :
              /\ result[i]["notification_sent_at"] # NaT =>
                    result[i]["notification_sent_at"] >= result[i]["created_at"]
              /\ FieldOrNull(result[i], "completed_at", NaT) # NaT =>
                    result[i]["completed_at"] >= result[i]["created_at"]
        /\ ResultMetrics.raised = ""
        /\ ResultMetrics.avg_notif_delay_min # NanFloat =>
              ResultMetrics.avg_notif_delay_min.num >= 0
        /\ ResultMetrics.avg_completion_min # NanFloat =>
              ResultMetrics.avg_completion_min.num >= 0

====
